---- MODULE Spec2Model ----
(***************************************************************************)
(* Trading guardrails policy of the Cypher-X agent                         *)
(* (vincent/policies/tradingGuardrailsPolicy, src/unnamed/part_001).       *)
(*                                                                         *)
(* Units.  amountIn is a decimal string; the strings of AmountStrings      *)
(* denote whole tokens, i.e. the written number times 10^18 base units, so *)
(* that Number(BigInt(amountIn)) / 1e18 is the written number.  USD values *)
(* are whole dollars; the arithmetic on them is exact.                     *)
(*                                                                         *)
(* One action is one call of validateTradingGuardrails from entry to       *)
(* return.  last records what the call did (checks evaluated in order,     *)
(* queries sent, answers received) and validVolume sums the values of the  *)
(* trades that validated; neither is read by the program.                  *)
(***************************************************************************)
EXTENDS Integers, Sequences, FiniteSets, TLC

\* ------------------------------------------------------------------ bounds
MaxCalls == 3
MaxDay == 2
MaxSwaps == 2
MaxInflight == 2
MaxCycles == 2
MaxQuoteAmount == 120

\* ------------------------------------------------- configuration defaults
maxSlippageBps == 300
maxDailyVolumeUsd == 10000
tradingInterval == 300000

\* ------------------------------------------------------------ input sets
TokenPairs == { <<"0xaa", "0xbb">>, <<"0xaa", "0xaa">> }
AmountStrings == {"-5000", "0", "5000", "1.5"}
ExampleAmounts == {"500", "600", "9000"}
UsdValues == {0, 2}

\* Amounts the minimum-output arithmetic is tried on: the small ones, where
\* the truncation shows, and the one whose estimated output is 1,000,000
QuoteAmounts == (0..MaxQuoteAmount) \cup {1020409}

\* String.prototype.toLowerCase on the addresses of the model
ToLowerCase(s) == IF s = "0xAA" THEN "0xaa" ELSE s

\* BigInt(string): throws a SyntaxError unless the string is an integer literal.
\* The two amounts the trading agents build, 10^9 and 5 * 10^17 base units, are
\* below one token; BigIntOf counts each as the smallest positive amount, 1, so
\* their USD values in the model are upper bounds of the real ones and stay
\* far below the daily limit as the real ones do.
BigIntParses(s) ==
  s \in {"-5000", "0", "5000", "500", "600", "9000", "1000000000", "500000000000000000"}

BigIntOf(s) ==
  CASE s = "-5000" -> 0 - 5000
    [] s = "0" -> 0
    [] s = "5000" -> 5000
    [] s = "500" -> 500
    [] s = "600" -> 600
    [] s = "9000" -> 9000
    [] s \in {"1000000000", "500000000000000000"} -> 1

\* The intents of the model: for the first wallet every token pair and amount
\* at the lowest accepted slippage, a swap between two spellings of one
\* address, one trade at the highest accepted slippage
\* and the out-of-bounds slippages on a plain trade and on an intent that
\* breaks the other guards as well;
\* the plain trades of ExampleAmounts for the second wallet, selling a token
\* the price API has no quote for
Intent(tp, a, s, w) ==
  [tokenIn |-> tp[1], tokenOut |-> tp[2], amountIn |-> a, slippageBps |-> s, walletAddress |-> w]

TradingParams ==
  { Intent(tp, a, 1, "0xW1") : tp \in TokenPairs, a \in AmountStrings }
  \cup { Intent(<<"0xAA", "0xaa">>, "5000", 1, "0xW1") }
  \cup { Intent(<<"0xaa", "0xbb">>, "5000", 300, "0xW1") }
  \cup { Intent(<<"0xaa", "0xbb">>, "5000", s, "0xW1") : s \in {0, 301} }
  \cup { Intent(<<"0xaa", "0xaa">>, "0", s, "0xW1") : s \in {0, 301} }
  \cup { Intent(<<"0xcc", "0xbb">>, a, 1, "0xW2") : a \in ExampleAmounts }

\* What the two isWhitelisted queries of one call answer
WhitelistAnswers ==
  { <<"true", "true">>, <<"true", "false">>, <<"false", "true">>, <<"false", "false">>,
    <<"throw", "true">>, <<"true", "throw">> }

\* The bodies of the CoinGecko response: a map from lower-case addresses to usd
PriceMaps == { [k \in ks |-> u] : ks \in {{}, {"0xaa"}}, u \in UsdValues }

NoParams == [tokenIn |-> "", tokenOut |-> "", amountIn |-> "0", slippageBps |-> 0, walletAddress |-> ""]

VARIABLES
  dailyVolumeTracker,  \* the module-level Map: <<wallet, day>> -> [date, volume]
  today,               \* the UTC calendar day new Date() reports
  whitelistContract,   \* whether TOKEN_WHITELIST_CONTRACT is set
  calls,               \* number of validateTradingGuardrails calls so far
  last,                \* the last call: its intent, its decision and what it did
  validVolume,         \* per <<wallet, day>>, the USD value of the trades that validated
  routerAddress,       \* whether UNISWAP_V3_ROUTER is set
  swap,                \* the last executeSwap call: its steps in order and its result
  quote,               \* the last minimum-output computation: its inputs and results
  agent,               \* the standalone CypherTradingAgent: its loop and its current cycle
  workflow,            \* the cypherWorkflow run: its current step and the steps' outputs
  inflight             \* validateTradingGuardrails calls suspended at an await

policyVars == <<dailyVolumeTracker, today, whitelistContract, calls, last, validVolume>>

cycleVars == <<agent, workflow, inflight>>

vars == <<dailyVolumeTracker, today, whitelistContract, calls, last, validVolume,
          routerAddress, swap, quote, agent, workflow, inflight>>

\* Map.get falling back to the wallet's record of an earlier day
TrackerGet_CarriesOver(tracker, key, day) ==
  IF key \in DOMAIN tracker THEN tracker[key]
  ELSE IF \E k \in DOMAIN tracker : k[1] = key[1]
  THEN tracker[CHOOSE k \in DOMAIN tracker : k[1] = key[1]]
  ELSE [date |-> day, volume |-> 0]

\* Map.get(key) || { date: today, volume: 0 }
TrackerGet(tracker, key, day) ==
  IF key \in DOMAIN tracker THEN tracker[key] ELSE [date |-> day, volume |-> 0]

\* The volume a key stands at in the tracker
VolumeOf(tracker, key) == IF key \in DOMAIN tracker THEN tracker[key].volume ELSE 0

\* Map.set that stores nothing
TrackerSet_Dropped(tracker, key, value) == tracker

\* Map.set(key, value)
TrackerSet(tracker, key, value) ==
  [k \in (DOMAIN tracker) \cup {key} |-> IF k = key THEN value ELSE tracker[k]]

\* validateSlippage with the upper bound excluded
validateSlippage_MaxExcluded(slippageBps) ==
  IF slippageBps >= maxSlippageBps
  THEN [isValid |-> FALSE, reason |-> "Slippage exceeds maximum allowed",
        details |-> [requestedSlippage |-> slippageBps, maxAllowed |-> maxSlippageBps]]
  ELSE IF slippageBps < 1
  THEN [isValid |-> FALSE, reason |-> "Slippage too low (unrealistic)",
        details |-> [requestedSlippage |-> slippageBps, minimum |-> 1]]
  ELSE [isValid |-> TRUE,
        details |-> [requestedSlippage |-> slippageBps, maxAllowed |-> maxSlippageBps]]

validateSlippage(slippageBps) ==
  IF slippageBps > maxSlippageBps
  THEN [isValid |-> FALSE, reason |-> "Slippage exceeds maximum allowed",
        details |-> [requestedSlippage |-> slippageBps, maxAllowed |-> maxSlippageBps]]
  ELSE IF slippageBps < 1
  THEN [isValid |-> FALSE, reason |-> "Slippage too low (unrealistic)",
        details |-> [requestedSlippage |-> slippageBps, minimum |-> 1]]
  ELSE [isValid |-> TRUE,
        details |-> [requestedSlippage |-> slippageBps, maxAllowed |-> maxSlippageBps]]

\* validateTokenWhitelist rejecting when the contract is not configured
validateTokenWhitelist_UnsetRejects(configured, tokenInWhitelisted, tokenOutWhitelisted) ==
  IF ~configured THEN FALSE
  ELSE IF tokenInWhitelisted = "throw" \/ tokenOutWhitelisted = "throw" THEN FALSE
  ELSE tokenInWhitelisted = "true" /\ tokenOutWhitelisted = "true"

\* validateTokenWhitelist passing when a query throws
validateTokenWhitelist_ThrowPasses(configured, tokenInWhitelisted, tokenOutWhitelisted) ==
  IF ~configured THEN TRUE
  ELSE IF tokenInWhitelisted = "throw" \/ tokenOutWhitelisted = "throw" THEN TRUE
  ELSE tokenInWhitelisted = "true" /\ tokenOutWhitelisted = "true"

\* The result of validateTokenWhitelist once both isWhitelisted queries have
\* answered (or thrown); configured is the presence of TOKEN_WHITELIST_CONTRACT.
validateTokenWhitelist(configured, tokenInWhitelisted, tokenOutWhitelisted) ==
  IF ~configured THEN TRUE
  ELSE IF tokenInWhitelisted = "throw" \/ tokenOutWhitelisted = "throw" THEN FALSE
  ELSE tokenInWhitelisted = "true" /\ tokenOutWhitelisted = "true"

\* getTokenPrices: the response body, or the default map { address.toLowerCase(): 1 }
getTokenPrices(tokenAddresses, throws, data) ==
  IF throws
  THEN [k \in { ToLowerCase(a) : a \in tokenAddresses } |-> 1]
  ELSE data

\* tokenPrices[tokenIn.toLowerCase()]?.usd || 1
TokenInPrice(tokenPrices, tokenIn) ==
  IF ToLowerCase(tokenIn) \in DOMAIN tokenPrices /\ tokenPrices[ToLowerCase(tokenIn)] # 0
  THEN tokenPrices[ToLowerCase(tokenIn)]
  ELSE 1

\* Number(amountInBigInt) * tokenInPrice / 1e18
TradeValueUsd(amountInBigInt, tokenInPrice) == amountInBigInt * tokenInPrice

\* validateDailyVolumeLimit keeping one record per day for all wallets
validateDailyVolumeLimit_SharedKey(tracker, walletAddress, tradeValueUsd, day) ==
  LET trackerKey == <<"", day>>
      currentData == TrackerGet(tracker, trackerKey, day)
      newTotalVolume == currentData.volume + tradeValueUsd
      details == [currentVolume |-> currentData.volume, tradeValue |-> tradeValueUsd,
                  newTotal |-> newTotalVolume, limit |-> maxDailyVolumeUsd]
  IN IF newTotalVolume > maxDailyVolumeUsd
     THEN [result |-> [isValid |-> FALSE, reason |-> "Daily volume limit exceeded", details |-> details],
           tracker |-> tracker]
     ELSE [result |-> [isValid |-> TRUE, details |-> details],
           tracker |-> TrackerSet(tracker, trackerKey, [date |-> day, volume |-> newTotalVolume])]

\* validateDailyVolumeLimit rejecting a total equal to the limit
validateDailyVolumeLimit_LimitExcluded(tracker, walletAddress, tradeValueUsd, day) ==
  LET trackerKey == <<walletAddress, day>>
      currentData == TrackerGet(tracker, trackerKey, day)
      newTotalVolume == currentData.volume + tradeValueUsd
      details == [currentVolume |-> currentData.volume, tradeValue |-> tradeValueUsd,
                  newTotal |-> newTotalVolume, limit |-> maxDailyVolumeUsd]
  IN IF newTotalVolume >= maxDailyVolumeUsd
     THEN [result |-> [isValid |-> FALSE, reason |-> "Daily volume limit exceeded", details |-> details],
           tracker |-> tracker]
     ELSE [result |-> [isValid |-> TRUE, details |-> details],
           tracker |-> TrackerSet(tracker, trackerKey, [date |-> day, volume |-> newTotalVolume])]

\* validateDailyVolumeLimit: the result and the tracker it leaves behind
validateDailyVolumeLimit(tracker, walletAddress, tradeValueUsd, day) ==
  LET trackerKey == <<walletAddress, day>>
      currentData == TrackerGet(tracker, trackerKey, day)
      newTotalVolume == currentData.volume + tradeValueUsd
      details == [currentVolume |-> currentData.volume, tradeValue |-> tradeValueUsd,
                  newTotal |-> newTotalVolume, limit |-> maxDailyVolumeUsd]
  IN IF newTotalVolume > maxDailyVolumeUsd
     THEN [result |-> [isValid |-> FALSE, reason |-> "Daily volume limit exceeded", details |-> details],
           tracker |-> tracker]
     ELSE [result |-> [isValid |-> TRUE, details |-> details],
           tracker |-> TrackerSet(tracker, trackerKey, [date |-> day, volume |-> newTotalVolume])]

\* The catch block of validateTradingGuardrails without a reason
ValidationErrorOccurred_NoReason(errorMessage) ==
  [isValid |-> FALSE, details |-> [error |-> errorMessage]]

\* The decision the catch block of validateTradingGuardrails returns
ValidationErrorOccurred(errorMessage) ==
  [isValid |-> FALSE, reason |-> "Validation error occurred",
   details |-> [error |-> errorMessage]]

\* The return of one validateTradingGuardrails call, with what it did on the way
Return(params, decision, evaluated, tracker, wl, price) ==
  /\ dailyVolumeTracker' = tracker
  /\ calls' = calls + 1
  /\ last' = [called |-> TRUE, params |-> params, decision |-> decision,
              evaluated |-> evaluated, whitelist |-> wl, price |-> price]
  /\ validVolume' =
       IF decision.isValid
       THEN LET key == <<params.walletAddress, today>>
            IN TrackerSet(validVolume, key,
                          (IF key \in DOMAIN validVolume THEN validVolume[key] ELSE 0)
                            + decision.details.tradeValueUsd)
       ELSE validVolume
  /\ UNCHANGED <<today, whitelistContract>>

NoWhitelist == [queries |-> 0, tokenIn |-> "none", tokenOut |-> "none"]
NoPrice == [queries |-> 0, threw |-> FALSE, tokenInPrice |-> 0]

\* Steps 3-5 of validateTradingGuardrails, after the whitelist check passed
AfterWhitelist(params, slippageValidation, wl, throws, data) ==
  LET tokenPrices == getTokenPrices({params.tokenIn, params.tokenOut}, throws, data)
      tokenInPrice == TokenInPrice(tokenPrices, params.tokenIn)
      price == [queries |-> 1, threw |-> throws, tokenInPrice |-> tokenInPrice]
  IN IF ~BigIntParses(params.amountIn)
     THEN Return(params, ValidationErrorOccurred("Cannot convert to a BigInt"),
                 <<"slippage", "whitelist", "price">>, dailyVolumeTracker, wl, price)
     ELSE
       LET amountInBigInt == BigIntOf(params.amountIn)
           tradeValueUsd == TradeValueUsd(amountInBigInt, tokenInPrice)
           vol == validateDailyVolumeLimit(dailyVolumeTracker, params.walletAddress, tradeValueUsd, today)
           volumeValidation == vol.result
       IN IF ~volumeValidation.isValid
          THEN Return(params, volumeValidation,
                      <<"slippage", "whitelist", "price", "volume">>, vol.tracker, wl, price)
          ELSE IF amountInBigInt <= 0
          THEN Return(params,
                      [isValid |-> FALSE, reason |-> "Invalid trade amount",
                       details |-> [amountIn |-> params.amountIn]],
                      <<"slippage", "whitelist", "price", "volume", "amount">>, vol.tracker, wl, price)
          ELSE IF params.tokenIn = params.tokenOut
          THEN Return(params,
                      [isValid |-> FALSE, reason |-> "Cannot swap token to itself",
                       details |-> [tokenIn |-> params.tokenIn, tokenOut |-> params.tokenOut]],
                      <<"slippage", "whitelist", "price", "volume", "amount", "selfswap">>,
                      vol.tracker, wl, price)
          ELSE Return(params,
                      [isValid |-> TRUE,
                       details |-> [whitelistValidated |-> TRUE,
                                    slippageValidated |-> slippageValidation.details,
                                    volumeValidated |-> volumeValidation.details,
                                    tradeValueUsd |-> tradeValueUsd]],
                      <<"slippage", "whitelist", "price", "volume", "amount", "selfswap">>,
                      vol.tracker, wl, price)

\* Step 2 onwards: the whitelist check and what follows it
AfterSlippage(params, slippageValidation, tokenInWhitelisted, tokenOutWhitelisted) ==
  LET wl == IF whitelistContract
            THEN [queries |-> 2, tokenIn |-> tokenInWhitelisted, tokenOut |-> tokenOutWhitelisted]
            ELSE NoWhitelist
      isWhitelisted == validateTokenWhitelist(whitelistContract, tokenInWhitelisted, tokenOutWhitelisted)
  IN IF ~isWhitelisted
     THEN Return(params,
                 [isValid |-> FALSE, reason |-> "One or both tokens not whitelisted",
                  details |-> [tokenIn |-> params.tokenIn, tokenOut |-> params.tokenOut]],
                 <<"slippage", "whitelist">>, dailyVolumeTracker, wl, NoPrice)
     ELSE \/ AfterWhitelist(params, slippageValidation, wl, TRUE, << >>)
          \/ \E data \in PriceMaps : AfterWhitelist(params, slippageValidation, wl, FALSE, data)

\* One call of validateTradingGuardrails(params), from its entry to its
\* return.  The answers of the whitelist contract and of the price API are
\* drawn when the call asks for them.
Validate(params) ==
  LET slippageValidation == validateSlippage(params.slippageBps)
  IN IF ~slippageValidation.isValid
     THEN Return(params, slippageValidation, <<"slippage">>, dailyVolumeTracker,
                 NoWhitelist, NoPrice)
     ELSE IF whitelistContract
     THEN \E ans \in WhitelistAnswers :
            AfterSlippage(params, slippageValidation, ans[1], ans[2])
     ELSE AfterSlippage(params, slippageValidation, "none", "none")

\* A direct call of the policy with any intent of the model
validateTradingGuardrails ==
  /\ calls < MaxCalls
  /\ \E params \in TradingParams : Validate(params)
  /\ UNCHANGED <<routerAddress, swap, quote, cycleVars>>

\* The UTC calendar day of new Date() moves on
AdvanceDay ==
  /\ today < MaxDay
  /\ today' = today + 1
  /\ UNCHANGED <<dailyVolumeTracker, whitelistContract, calls, last, validVolume,
                 routerAddress, swap, quote, cycleVars>>

InitPolicy ==
  /\ dailyVolumeTracker = << >>
  /\ today = 1
  /\ whitelistContract \in BOOLEAN
  /\ calls = 0
  /\ validVolume = << >>
  /\ last = [called |-> FALSE, params |-> NoParams,
             decision |-> [isValid |-> TRUE, details |-> << >>],
             evaluated |-> << >>, whitelist |-> NoWhitelist, price |-> NoPrice]

\* ------------------------------------------------------------ executeSwap
\* (vincent/tools/executeSwapTool.ts).  BigInt amounts are counted in units of
\* 10^14 base units, so a whole token is 10000 units and every division of
\* executeSwap on the amounts of the model is exact.

\* floor(x * m / d) for x >= 0, without forming the product x * m
MulDiv(x, m, d) == (x \div d) * m + ((x % d) * m) \div d

\* <<quotient, remainder>> of x * m by d for 0 <= x < d, by doubling, so that
\* no intermediate value exceeds 3 * d
RECURSIVE DivMod(_, _, _)
DivMod(x, m, d) ==
  IF m = 0 THEN <<0, 0>>
  ELSE LET half == DivMod(x, m \div 2, d)
           rest == 2 * half[2] + (m % 2) * x
       IN <<2 * half[1] + rest \div d, rest % d>>

\* floor(x * m / d) for x >= 0 of any size
MulDivWide(x, m, d) == (x \div d) * m + DivMod(x % d, m, d)[1]

\* BigInt division x * m / d, which truncates towards zero
MulDivTrunc(x, m, d) == IF x >= 0 THEN MulDivWide(x, m, d) ELSE 0 - MulDivWide(0 - x, m, d)

\* BigInt(amountIn) of executeSwap, in units of 10^14 base units
AmountInBigInt(amountIn) == BigIntOf(amountIn) * 10000

\* amountInBigInt * BigInt(98) / BigInt(100)
EstimatedAmountOut(amountInBigInt) == MulDiv(amountInBigInt, 98, 100)

\* calculateMinAmountOut rounding up instead of truncating
calculateMinAmountOut_RoundsUp(expectedAmountOut, slippageBps) ==
  MulDiv(expectedAmountOut, 10000 - slippageBps, 10000)
    + (IF (expectedAmountOut % 10000) * (10000 - slippageBps) % 10000 = 0 THEN 0 ELSE 1)

calculateMinAmountOut(expectedAmountOut, slippageBps) ==
  MulDiv(expectedAmountOut, 10000 - slippageBps, 10000)

\* pkpWallet.getAddress(): the address of the one PKP the process signs with
PkpAddress == "0xW1"

SwapIntent(tp, a, s) ==
  [tokenIn |-> tp[1], tokenOut |-> tp[2], amountIn |-> a, slippageBps |-> s, recipient |-> "0xR1"]

\* The swaps of the model: a plain trade of a zero, a positive and a
\* non-integer amount, a self-swap and a slippage above the upper bound
SwapParams ==
  { SwapIntent(<<"0xaa", "0xbb">>, a, 1) : a \in {"0", "5000", "1.5"} }
  \cup { SwapIntent(<<"0xaa", "0xaa">>, "5000", 1) }
  \cup { SwapIntent(<<"0xaa", "0xbb">>, "5000", 301) }

\* What litNodeClient.connect(), process.env.LIT_PKP_PUBLIC_KEY and
\* pkpWallet.init() give in one call
WalletOutcomes ==
  { [connects |-> FALSE, pkpPublicKey |-> TRUE, inits |-> TRUE],
    [connects |-> TRUE, pkpPublicKey |-> FALSE, inits |-> TRUE],
    [connects |-> TRUE, pkpPublicKey |-> TRUE, inits |-> FALSE],
    [connects |-> TRUE, pkpPublicKey |-> TRUE, inits |-> TRUE] }

NoWallet == [connects |-> FALSE, pkpPublicKey |-> FALSE, inits |-> FALSE]

\* initializeLitWallet without the check of LIT_PKP_PUBLIC_KEY
initializeLitWallet_NoKeyCheck(w) ==
  IF ~w.connects
  THEN [kind |-> "throw", error |-> <<"Lit wallet initialization failed: ", "connect failed">>]
  ELSE IF ~w.inits
  THEN [kind |-> "throw", error |-> <<"Lit wallet initialization failed: ", "init failed">>]
  ELSE [kind |-> "return", error |-> << >>]

\* initializeLitWallet: the wallet, or the error it throws
initializeLitWallet(w) ==
  IF ~w.connects
  THEN [kind |-> "throw", error |-> <<"Lit wallet initialization failed: ", "connect failed">>]
  ELSE IF ~w.pkpPublicKey
  THEN [kind |-> "throw",
        error |-> <<"Lit wallet initialization failed: ", "LIT_PKP_PUBLIC_KEY not configured">>]
  ELSE IF ~w.inits
  THEN [kind |-> "throw", error |-> <<"Lit wallet initialization failed: ", "init failed">>]
  ELSE [kind |-> "return", error |-> << >>]

\* Strings that BigInt() is applied to: a number literal, the empty string or
\* a string that is no number literal
NumberString(n) == [kind |-> "number", val |-> n]
EmptyString == [kind |-> "empty", val |-> 0]
GarbageString == [kind |-> "garbage", val |-> 0]

NoLog == [found |-> FALSE, data |-> EmptyString]

\* The Transfer log of the receipt: absent, or present with its data
TransferLogs(estimatedAmountOut, amountOutMinimum) ==
  { NoLog,
    [found |-> TRUE, data |-> EmptyString],
    [found |-> TRUE, data |-> GarbageString],
    [found |-> TRUE, data |-> NumberString(estimatedAmountOut)],
    [found |-> TRUE, data |-> NumberString(amountOutMinimum)] }

\* Step 7 of executeSwap treating a receipt without Transfer log as an error
Reconcile_MissingLogThrows(estimatedAmountOut, log) ==
  LET actualAmountOut == IF log.found /\ log.data.kind # "empty" THEN log.data ELSE NumberString(0)
  IN IF ~log.found
     THEN [kind |-> "throw", error |-> <<"Transfer event not found">>,
           amountOut |-> actualAmountOut, effectiveSlippage |-> 0]
     ELSE IF actualAmountOut = NumberString(0)
     THEN [kind |-> "return", error |-> << >>, amountOut |-> actualAmountOut, effectiveSlippage |-> 0]
     ELSE IF actualAmountOut.kind # "number"
     THEN [kind |-> "throw", error |-> <<"Cannot convert to a BigInt">>,
           amountOut |-> actualAmountOut, effectiveSlippage |-> 0]
     ELSE IF estimatedAmountOut = 0
     THEN [kind |-> "throw", error |-> <<"Division by zero">>,
           amountOut |-> actualAmountOut, effectiveSlippage |-> 0]
     ELSE [kind |-> "return", error |-> << >>, amountOut |-> actualAmountOut,
           effectiveSlippage |-> MulDivTrunc(estimatedAmountOut - actualAmountOut.val, 10000,
                                             estimatedAmountOut)]

\* Step 7 of executeSwap: actualAmountOut = log?.data || '0' and the effective
\* slippage, in hundredths of a percent; BigInt() and the division may throw
Reconcile(estimatedAmountOut, log) ==
  LET actualAmountOut == IF log.found /\ log.data.kind # "empty" THEN log.data ELSE NumberString(0)
  IN IF actualAmountOut = NumberString(0)
     THEN [kind |-> "return", error |-> << >>, amountOut |-> actualAmountOut, effectiveSlippage |-> 0]
     ELSE IF actualAmountOut.kind # "number"
     THEN [kind |-> "throw", error |-> <<"Cannot convert to a BigInt">>,
           amountOut |-> actualAmountOut, effectiveSlippage |-> 0]
     ELSE IF estimatedAmountOut = 0
     THEN [kind |-> "throw", error |-> <<"Division by zero">>,
           amountOut |-> actualAmountOut, effectiveSlippage |-> 0]
     ELSE [kind |-> "return", error |-> << >>, amountOut |-> actualAmountOut,
           effectiveSlippage |-> MulDivTrunc(estimatedAmountOut - actualAmountOut.val, 10000,
                                             estimatedAmountOut)]

NoSwapParams == [amountIn |-> 0, amountOutMinimum |-> 0, fee |-> 0]

\* What one executeSwap call has done so far
NoSteps ==
  [trace |-> << >>, balance |-> 0, approved |-> 0, swapParams |-> NoSwapParams, log |-> NoLog]

NoResult == [success |-> FALSE]

NoSwap ==
  [called |-> FALSE, params |-> SwapIntent(<<"", "">>, "0", 0), wallet |-> NoWallet,
   did |-> NoSteps, threw |-> FALSE, result |-> NoResult]

NoQuote == [called |-> FALSE, amountIn |-> 0, slippageBps |-> 0, expected |-> 0, minOut |-> 0]

NoAgent ==
  [pc |-> "off", recipient |-> "", cycles |-> 0, failures |-> 0, threw |-> FALSE, delay |-> 0,
   marketData |-> "none", signal |-> "none", confidence |-> 0,
   params |-> SwapIntent(<<"", "">>, "0", 0),
   startVolume |-> 0, startCalls |-> 0, validated |-> FALSE, swapped |-> FALSE, report |-> "none"]

NoWorkflow ==
  [pc |-> "off", cycles |-> 0, tokens |-> FALSE, agentId |-> "",
   fetch |-> "none", marketData |-> "none",
   gaia |-> [kind |-> "none", signal |-> "none", confidence |-> 0],
   signal |-> "none", confidence |-> 0,
   action |-> "none", tradeDirection |-> "none", trade |-> "none", txHash |-> "",
   report |-> "none"]

\* A thrown value that is not an instance of Error
NotAnError == << >>

\* The catch block of executeSwap letting the exception escape
Catch_Rethrows(outcome) == outcome

\* The catch block of executeSwap: a thrown error becomes a failure result
\* with error.message, a thrown value that is no Error with 'Unknown error'
Catch(outcome) ==
  IF outcome.kind = "throw"
  THEN [kind |-> "return",
        result |-> [success |-> FALSE,
                    error |-> IF outcome.error = NotAnError THEN <<"Unknown error">>
                              ELSE outcome.error]]
  ELSE outcome

\* The end of one executeSwap call: by a return or by a throw inside try
SwapReturn(params, wallet, did, outcome) ==
  LET final == Catch(outcome)
  IN swap' = [called |-> TRUE, params |-> params, wallet |-> wallet, did |-> did,
              threw |-> final.kind = "throw",
              result |-> IF final.kind = "throw" THEN NoResult ELSE final.result]

Returns(result) == [kind |-> "return", result |-> result]
Throws(message) == [kind |-> "throw", error |-> <<message>>]

\* if (!policyValidation.isValid), never taken
PolicyRejected_Never(policyValidation) == FALSE

\* if (!policyValidation.isValid)
PolicyRejected(policyValidation) == ~policyValidation.isValid

\* The balance test with the comparison turned round
InsufficientBalance_Inverted(balance, amountInBigInt) == balance > amountInBigInt

\* if (BigInt(tokenInInfo.balance) < amountInBigInt)
InsufficientBalance(balance, amountInBigInt) == balance < amountInBigInt

\* Steps 5 to 7: the swap transaction, its confirmation and the result
SubmitSwap(params, wallet, did, amountInBigInt) ==
  LET estimatedAmountOut == EstimatedAmountOut(amountInBigInt)
      amountOutMinimum == calculateMinAmountOut(estimatedAmountOut, params.slippageBps)
      swapParams == [amountIn |-> amountInBigInt, amountOutMinimum |-> amountOutMinimum, fee |-> 3000]
      submitted == [did EXCEPT !.trace = Append(@, "swap"), !.swapParams = swapParams]
      confirmed == [submitted EXCEPT !.trace = Append(@, "swapConfirmed")]
  IN \/ SwapReturn(params, wallet, submitted, Throws("swap transaction rejected"))
     \/ SwapReturn(params, wallet, submitted, Throws("swap transaction reverted"))
     \/ \E log \in TransferLogs(estimatedAmountOut, amountOutMinimum) :
          LET r == Reconcile(estimatedAmountOut, log)
          IN SwapReturn(params, wallet, [confirmed EXCEPT !.log = log],
                        IF r.kind = "throw"
                        THEN [kind |-> "throw", error |-> r.error]
                        ELSE Returns([success |-> TRUE, txHash |-> "0xswap", amountOut |-> r.amountOut,
                                      gasUsed |-> "21000", effectiveSlippage |-> r.effectiveSlippage]))

\* Step 4 sending the approval a second time when the first one is rejected
Approve_Retries(params, wallet, did, amountInBigInt) ==
  IF ~routerAddress
  THEN SwapReturn(params, wallet, did, Throws("UNISWAP_V3_ROUTER not configured"))
  ELSE LET submitted == [did EXCEPT !.trace = Append(@, "approve"), !.approved = amountInBigInt]
           again == [submitted EXCEPT !.trace = Append(@, "approve")]
           confirmed == [submitted EXCEPT !.trace = Append(@, "approveConfirmed")]
       IN \/ SwapReturn(params, wallet, again, Throws("approve transaction rejected"))
          \/ SwapReturn(params, wallet, submitted, Throws("approve transaction reverted"))
          \/ SubmitSwap(params, wallet, confirmed, amountInBigInt)
          \/ SubmitSwap(params, wallet, [again EXCEPT !.trace = Append(@, "approveConfirmed")],
                        amountInBigInt)

\* Step 4: the router address and the approval transaction
Approve(params, wallet, did, amountInBigInt) ==
  IF ~routerAddress
  THEN SwapReturn(params, wallet, did, Throws("UNISWAP_V3_ROUTER not configured"))
  ELSE LET submitted == [did EXCEPT !.trace = Append(@, "approve"), !.approved = amountInBigInt]
           confirmed == [submitted EXCEPT !.trace = Append(@, "approveConfirmed")]
       IN \/ SwapReturn(params, wallet, submitted, Throws("approve transaction rejected"))
          \/ SwapReturn(params, wallet, submitted, Throws("approve transaction reverted"))
          \/ SubmitSwap(params, wallet, confirmed, amountInBigInt)

\* Step 3: getTokenInfo and the balance test
CheckBalance(params, wallet, did) ==
  LET amountInBigInt == AmountInBigInt(params.amountIn)
      read == [did EXCEPT !.trace = Append(@, "balance")]
  IN \/ SwapReturn(params, wallet, read, Throws("balance read failed"))
     \/ SwapReturn(params, wallet, read, [kind |-> "throw", error |-> NotAnError])
     \/ IF ~BigIntParses(params.amountIn)
        THEN SwapReturn(params, wallet, read, Throws("Cannot convert to a BigInt"))
        ELSE \E balance \in {amountInBigInt - 1, amountInBigInt} :
               IF InsufficientBalance(balance, amountInBigInt)
               THEN SwapReturn(params, wallet, [read EXCEPT !.balance = balance],
                               Returns([success |-> FALSE, error |-> <<"Insufficient balance">>]))
               ELSE Approve(params, wallet, [read EXCEPT !.balance = balance], amountInBigInt)

\* What follows the policy validation of step 2
AfterPolicy(params, wallet, did, policyValidation) ==
  IF PolicyRejected(policyValidation)
  THEN SwapReturn(params, wallet, did,
                  Returns([success |-> FALSE,
                           error |-> <<"Policy validation failed: ", policyValidation.reason>>]))
  ELSE CheckBalance(params, wallet, did)

\* One call of executeSwap(params), from its entry to the settling of its promise
ExecuteSwap(params) ==
  \E wallet \in WalletOutcomes :
    LET acquired == initializeLitWallet(wallet)
        did == [NoSteps EXCEPT !.trace = <<"wallet">>]
    IN IF acquired.kind = "throw"
       THEN /\ SwapReturn(params, wallet, did, acquired)
            /\ UNCHANGED policyVars
       ELSE /\ Validate([tokenIn |-> params.tokenIn, tokenOut |-> params.tokenOut,
                         amountIn |-> params.amountIn, slippageBps |-> params.slippageBps,
                         walletAddress |-> PkpAddress])
            /\ AfterPolicy(params, wallet, [did EXCEPT !.trace = Append(@, "policy")],
                           last'.decision)

\* A direct call of executeSwap with any swap of the model
executeSwap ==
  /\ calls < MaxSwaps
  /\ \E params \in SwapParams : ExecuteSwap(params)
  /\ UNCHANGED <<routerAddress, quote, cycleVars>>

\* The computation of the swap's amountOutMinimum from amountIn and slippageBps
QuoteMinimumOut ==
  /\ ~quote.called
  /\ LET estimatedAmountOut == EstimatedAmountOut(quote.amountIn)
     IN quote' = [quote EXCEPT !.called = TRUE,
                               !.expected = estimatedAmountOut,
                               !.minOut = calculateMinAmountOut(estimatedAmountOut, quote.slippageBps)]
  /\ UNCHANGED <<policyVars, routerAddress, swap, cycleVars>>

\* ------------------------------------ concurrent validateTradingGuardrails
\* Calls of validateTradingGuardrails that overlap: a call runs from its entry
\* to its first await, and from one await to the next or to its return; the
\* calls are for one wallet, and the event loop runs one of these pieces at a
\* time.

ConcurrentParams ==
  { Intent(<<"0xaa", "0xbb">>, "5000", 1, "0xW1"),
    Intent(<<"0xaa", "0xaa">>, "5000", 1, "0xW1"),
    Intent(<<"0xaa", "0xbb">>, "5000", 301, "0xW1") }

\* inflight with one more call, or with call i moved on
Suspend(i, pc, params, decision) ==
  inflight' = [k \in (DOMAIN inflight) \cup {i} |->
                 IF k = i THEN [pc |-> pc, params |-> params, decision |-> decision]
                 ELSE inflight[k]]

NoDecision == [isValid |-> FALSE, reason |-> "pending", details |-> << >>]

\* Entry of a call up to await validateTokenWhitelist(...)
BeginValidation ==
  /\ Cardinality(DOMAIN inflight) < MaxInflight
  /\ \E params \in ConcurrentParams :
       LET i == Cardinality(DOMAIN inflight) + 1
           slippageValidation == validateSlippage(params.slippageBps)
       IN IF ~slippageValidation.isValid
          THEN Suspend(i, "done", params, slippageValidation)
          ELSE Suspend(i, "whitelist", params, NoDecision)
  /\ UNCHANGED <<policyVars, routerAddress, swap, quote, agent, workflow>>

\* From the answer of the whitelist check up to await getTokenPrices(...)
ResumeAfterWhitelist ==
  /\ \E i \in DOMAIN inflight :
       /\ inflight[i].pc = "whitelist"
       /\ \E ans \in (IF whitelistContract THEN WhitelistAnswers ELSE {<<"none", "none">>}) :
            LET params == inflight[i].params
            IN IF ~validateTokenWhitelist(whitelistContract, ans[1], ans[2])
               THEN Suspend(i, "done", params,
                            [isValid |-> FALSE, reason |-> "One or both tokens not whitelisted",
                             details |-> [tokenIn |-> params.tokenIn, tokenOut |-> params.tokenOut]])
               ELSE Suspend(i, "price", params, NoDecision)
  /\ UNCHANGED <<policyVars, routerAddress, swap, quote, agent, workflow>>

\* From the answer of the price lookup to the return: the volume check with
\* its commit and the two guards after it, with no await in between
ResumeAfterPrice ==
  /\ \E i \in DOMAIN inflight :
       /\ inflight[i].pc = "price"
       /\ \E throws \in BOOLEAN, data \in PriceMaps :
            LET params == inflight[i].params
                tokenPrices == getTokenPrices({params.tokenIn, params.tokenOut}, throws, data)
                tokenInPrice == TokenInPrice(tokenPrices, params.tokenIn)
            IN IF ~BigIntParses(params.amountIn)
               THEN /\ Suspend(i, "done", params, ValidationErrorOccurred("Cannot convert to a BigInt"))
                    /\ UNCHANGED dailyVolumeTracker
               ELSE LET amountInBigInt == BigIntOf(params.amountIn)
                        tradeValueUsd == TradeValueUsd(amountInBigInt, tokenInPrice)
                        vol == validateDailyVolumeLimit(dailyVolumeTracker, params.walletAddress,
                                                        tradeValueUsd, today)
                    IN /\ dailyVolumeTracker' = vol.tracker
                       /\ Suspend(i, "done", params,
                                  IF ~vol.result.isValid THEN vol.result
                                  ELSE IF amountInBigInt <= 0
                                  THEN [isValid |-> FALSE, reason |-> "Invalid trade amount",
                                        details |-> [amountIn |-> params.amountIn]]
                                  ELSE IF params.tokenIn = params.tokenOut
                                  THEN [isValid |-> FALSE, reason |-> "Cannot swap token to itself",
                                        details |-> [tokenIn |-> params.tokenIn,
                                                     tokenOut |-> params.tokenOut]]
                                  ELSE [isValid |-> TRUE,
                                        details |-> [whitelistValidated |-> TRUE,
                                                     slippageValidated |->
                                                       validateSlippage(params.slippageBps).details,
                                                     volumeValidated |-> vol.result.details,
                                                     tradeValueUsd |-> tradeValueUsd]])
  /\ UNCHANGED <<today, whitelistContract, calls, last, validVolume,
                 routerAddress, swap, quote, agent, workflow>>

\* ------------------------------------------- standalone CypherTradingAgent
\* (src/utils/logger.ts, second half).  Confidences are in percent.  agent.pc
\* is "cycle" at the start of executeTradingCycle, "validate" and "swap" at
\* the two awaits of executeTrade and "wait" while a setTimeout of
\* runTradingLoop is pending.

\* USDC_ADDRESS and WETH_ADDRESS, or their defaults
UsdcAddress == "0xbb"
WethAddress == "0xaa"

\* '0x0000000000000000000000000000000000000000'
ZeroAddress == "0x0000"

\* process.env.PKP_ADDRESS || ZeroAddress
AgentRecipients == {PkpAddress, ZeroAddress}

\* getMockSignal, by the trend of the last ten prices
getMockSignal(trend) ==
  IF trend = "up" THEN [signal |-> "BUY", confidence |-> 80]
  ELSE IF trend = "down" THEN [signal |-> "SELL", confidence |-> 80]
  ELSE [signal |-> "HOLD", confidence |-> 50]

\* What getTradingSignal of the agent returns: the mock signal when Gaia is
\* not configured or the request fails, else the two words of the model output
\* as they are
AgentSignals ==
  { getMockSignal(trend) : trend \in {"up", "down", "flat"} }
  \cup { [signal |-> sg, confidence |-> c] :
           sg \in {"BUY", "SELL", "HOLD", "MAYBE"}, c \in {0, 74, 75, 76} }

\* if (!signal || signal.signal === 'HOLD' || signal.confidence < 0.75) return
AgentSkips(sig) == sig.signal = "HOLD" \/ sig.confidence < 75

\* tradeParams of executeTrade
AgentTradeParams(sig, recipient) ==
  LET isBuy == sig.signal = "BUY"
  IN [tokenIn |-> IF isBuy THEN UsdcAddress ELSE WethAddress,
      tokenOut |-> IF isBuy THEN WethAddress ELSE UsdcAddress,
      amountIn |-> IF isBuy THEN "1000000000" ELSE "500000000000000000",
      slippageBps |-> 300,
      recipient |-> recipient]

\* The delay of the setTimeout after a cycle growing with the failures
WaitAfterCycle_Grows(threw, failures) ==
  IF threw THEN 30000 * failures ELSE tradingInterval

\* The delay of the setTimeout after a cycle of runTradingLoop
WaitAfterCycle(threw, failures) ==
  IF threw THEN 30000 ELSE tradingInterval

\* executeTradingCycle has returned or thrown: runTradingLoop sets its timer
EndCycle(a, threw) ==
  LET failures == IF threw THEN a.failures + 1 ELSE 0
  IN agent' = [a EXCEPT !.pc = "wait", !.threw = threw, !.failures = failures,
                        !.delay = WaitAfterCycle(threw, failures)]

\* reportTrade of the agent: skipped without configuration, else posted; a
\* failing post is caught
AgentReports == {"skipped", "sent", "failed"}

\* start(): isRunning = true and the first cycle begins
AgentStart ==
  /\ agent.pc = "off"
  /\ workflow.pc = "off"
  /\ \E recipient \in AgentRecipients :
       agent' = [NoAgent EXCEPT !.pc = "cycle", !.cycles = 1, !.recipient = recipient,
                                !.startVolume = VolumeOf(dailyVolumeTracker, <<PkpAddress, today>>),
                                !.startCalls = calls]
  /\ UNCHANGED <<policyVars, routerAddress, swap, quote, workflow, inflight>>

\* The timer of runTradingLoop fires and the next cycle begins
AgentTimer ==
  /\ agent.pc = "wait"
  /\ agent.cycles < MaxCycles
  /\ agent' = [agent EXCEPT !.pc = "cycle", !.cycles = @ + 1,
                            !.marketData = "none", !.signal = "none", !.confidence = 0,
                            !.startVolume = VolumeOf(dailyVolumeTracker, <<PkpAddress, today>>),
                            !.startCalls = calls,
                            !.validated = FALSE, !.swapped = FALSE, !.report = "none"]
  /\ UNCHANGED <<policyVars, routerAddress, swap, quote, workflow, inflight>>

\* executeTradingCycle from its start to the first await of executeTrade:
\* fetchMarketData, getTradingSignal and the decision.  fetchMarketData
\* returns null when the request fails; its catch block reads error.message,
\* which throws when the request rejected with null
AgentSignal ==
  /\ agent.pc = "cycle"
  /\ \E md \in {"rejectsNull", "null", "empty", "data"} :
       LET a == [agent EXCEPT !.marketData = md]
       IN IF md = "rejectsNull" THEN EndCycle(a, TRUE)
          ELSE IF md \in {"null", "empty"} THEN EndCycle(a, FALSE)
          ELSE \E sig \in AgentSignals :
                 LET b == [a EXCEPT !.signal = sig.signal, !.confidence = sig.confidence]
                 IN IF AgentSkips(sig) THEN EndCycle(b, FALSE)
                    ELSE agent' = [b EXCEPT !.pc = "validate",
                                            !.params = AgentTradeParams(sig, agent.recipient)]
  /\ UNCHANGED <<policyVars, routerAddress, swap, quote, workflow, inflight>>

\* executeTrade: await validateTradingGuardrails({...tradeParams, walletAddress: recipient})
AgentValidate ==
  /\ agent.pc = "validate"
  /\ Validate([tokenIn |-> agent.params.tokenIn, tokenOut |-> agent.params.tokenOut,
               amountIn |-> agent.params.amountIn, slippageBps |-> agent.params.slippageBps,
               walletAddress |-> agent.params.recipient])
  /\ IF last'.decision.isValid
     THEN agent' = [agent EXCEPT !.pc = "swap", !.validated = TRUE]
     ELSE EndCycle([agent EXCEPT !.validated = TRUE], FALSE)
  /\ UNCHANGED <<routerAddress, swap, quote, workflow, inflight>>

\* executeTrade: await executeSwap(tradeParams), then reportTrade on success
AgentSwap ==
  /\ agent.pc = "swap"
  /\ ExecuteSwap(agent.params)
  /\ IF swap'.result.success
     THEN \E r \in AgentReports : EndCycle([agent EXCEPT !.swapped = TRUE, !.report = r], FALSE)
     ELSE EndCycle([agent EXCEPT !.swapped = TRUE], FALSE)
  /\ UNCHANGED <<routerAddress, quote, workflow, inflight>>

\* ----------------------------------------------------------- cypherWorkflow
\* (mastra/workflows/cypherWorkflow.ts and mastra/tools/vincentSwapTool,
\* src/unnamed/part_002).  One action is the execute function of one step;
\* the steps follow each other as the header of the workflow lists them:
\* waitForSignal, fetchMarketData, getTradingSignal, decideAction, then
\* executeTrade and reportTrade on TRADE, and back to waitForSignal.  A step
\* that throws ends the run.

\* /^0x[a-fA-F0-9]{40}$/.test(s), on the names the model gives to addresses
IsAddress(s) == s \in {"0xaa", "0xbb", "0xcc", "0xAA", "0xW1", "0xW2", "0xR1", "0x0000"}

\* USDC_ADDRESS and WETH_ADDRESS set or not, and context.agentId
WorkflowEnvs ==
  { [tokens |-> TRUE, agentId |-> PkpAddress],
    [tokens |-> FALSE, agentId |-> PkpAddress],
    [tokens |-> TRUE, agentId |-> ""] }

\* The outcomes of the CoinGecko request of fetchMarketData
FetchOutcomes == {"requestFails", "noPrices", "fewPoints", "ok"}

\* fetchMarketData: the prices, or [] from the catch block
fetchMarketData(outcome) == IF outcome = "ok" THEN "data" ELSE "empty"

\* The outcomes of the Gaia request of getTradingSignal, with the two words
\* of the model output when there is one
GaiaOutcomes ==
  { [kind |-> k, signal |-> "none", confidence |-> 0] :
      k \in {"unconfigured", "requestFails", "noContent"} }
  \cup { [kind |-> "content", signal |-> sg, confidence |-> c] :
           sg \in {"BUY", "SELL", "HOLD", "MAYBE"}, c \in {0, 74, 75, 76, 150} }

\* Math.max(0, Math.min(1, confidence))
Clamp(c) == IF c < 0 THEN 0 ELSE IF c > 100 THEN 100 ELSE c

\* getTradingSignal falling back to a BUY at full confidence
getTradingSignal_FallbackBuys(marketData, gaia) ==
  IF marketData = "empty" THEN [signal |-> "BUY", confidence |-> 100]
  ELSE IF gaia.kind # "content" \/ gaia.signal \notin {"BUY", "SELL", "HOLD"}
  THEN [signal |-> "BUY", confidence |-> 100]
  ELSE [signal |-> gaia.signal, confidence |-> Clamp(gaia.confidence)]

\* getTradingSignal: HOLD at confidence 0 without market data and from the
\* catch block, else the parsed signal with its confidence clamped
getTradingSignal(marketData, gaia) ==
  IF marketData = "empty" THEN [signal |-> "HOLD", confidence |-> 0]
  ELSE IF gaia.kind # "content" \/ gaia.signal \notin {"BUY", "SELL", "HOLD"}
  THEN [signal |-> "HOLD", confidence |-> 0]
  ELSE [signal |-> gaia.signal, confidence |-> Clamp(gaia.confidence)]

\* parseFloat(process.env.MIN_CONFIDENCE_THRESHOLD || '0.75')
minConfidence == 75

\* decideAction
decideAction(signal, confidence) ==
  IF signal \in {"BUY", "SELL"} /\ confidence >= minConfidence
  THEN [action |-> "TRADE", tradeDirection |-> signal]
  ELSE [action |-> "WAIT", tradeDirection |-> "none"]

\* The input executeTrade gives to vincentSwapTool; "" is undefined
WorkflowTradeParams(tradeDirection, env) ==
  LET isBuy == tradeDirection = "BUY"
  IN [tokenIn |-> IF ~env.tokens THEN "" ELSE IF isBuy THEN UsdcAddress ELSE WethAddress,
      tokenOut |-> IF ~env.tokens THEN "" ELSE IF isBuy THEN WethAddress ELSE UsdcAddress,
      amountIn |-> IF isBuy THEN "1000000000" ELSE "500000000000000000",
      slippageBps |-> 300,
      recipient |-> IF env.agentId = "" THEN "cypher-agent" ELSE env.agentId]

\* The input validation of vincentSwapTool: whether it throws before executeSwap
ToolInputThrows(p) ==
  \/ p.tokenIn = "" \/ p.tokenOut = "" \/ p.amountIn = "" \/ p.recipient = ""
  \/ p.tokenIn = p.tokenOut
  \/ ~IsAddress(p.tokenIn) \/ ~IsAddress(p.tokenOut) \/ ~IsAddress(p.recipient)
  \/ ~BigIntParses(p.amountIn)
  \/ BigIntOf(p.amountIn) <= 0

\* vincentSwapTool accepting every SwapResult
SwapToolRejects_Never(swapResult) == FALSE

\* if (!swapResult.success || !swapResult.txHash) throw
SwapToolRejects(swapResult) ==
  ~swapResult.success \/ "txHash" \notin DOMAIN swapResult

\* The outcomes of the Recall request of reportTrade
RecallOutcomes == {"unconfigured", "postFails", "ok"}

\* The workflow run starts
WorkflowStart ==
  /\ workflow.pc = "off"
  /\ agent.pc = "off"
  /\ \E env \in WorkflowEnvs :
       workflow' = [NoWorkflow EXCEPT !.pc = "waitForSignal", !.tokens = env.tokens,
                                      !.agentId = env.agentId]
  /\ UNCHANGED <<policyVars, routerAddress, swap, quote, agent, inflight>>

\* waitForSignal: the five minutes have passed and a cycle is triggered
waitForSignal ==
  /\ workflow.pc = "waitForSignal"
  /\ workflow.cycles < MaxCycles
  /\ workflow' = [NoWorkflow EXCEPT !.pc = "fetchMarketData", !.cycles = workflow.cycles + 1,
                                    !.tokens = workflow.tokens, !.agentId = workflow.agentId]
  /\ UNCHANGED <<policyVars, routerAddress, swap, quote, agent, inflight>>

\* The fetchMarketData step
FetchMarketDataStep ==
  /\ workflow.pc = "fetchMarketData"
  /\ \E outcome \in FetchOutcomes :
       workflow' = [workflow EXCEPT !.pc = "getTradingSignal", !.fetch = outcome,
                                    !.marketData = fetchMarketData(outcome)]
  /\ UNCHANGED <<policyVars, routerAddress, swap, quote, agent, inflight>>

\* The getTradingSignal step; Gaia is asked only when there is market data
GetTradingSignalStep ==
  /\ workflow.pc = "getTradingSignal"
  /\ \E gaia \in (IF workflow.marketData = "empty"
                   THEN {[kind |-> "notAsked", signal |-> "none", confidence |-> 0]}
                   ELSE GaiaOutcomes) :
       LET out == getTradingSignal(workflow.marketData, gaia)
       IN workflow' = [workflow EXCEPT !.pc = "decideAction", !.gaia = gaia,
                                       !.signal = out.signal, !.confidence = out.confidence]
  /\ UNCHANGED <<policyVars, routerAddress, swap, quote, agent, inflight>>

\* The decideAction step and the branch on its action
DecideActionStep ==
  /\ workflow.pc = "decideAction"
  /\ LET out == decideAction(workflow.signal, workflow.confidence)
     IN workflow' = [workflow EXCEPT !.pc = IF out.action = "TRADE" THEN "executeTrade"
                                            ELSE "waitForSignal",
                                     !.action = out.action,
                                     !.tradeDirection = out.tradeDirection]
  /\ UNCHANGED <<policyVars, routerAddress, swap, quote, agent, inflight>>

\* The executeTrade step: vincentSwapTool, which calls executeSwap unless its
\* input validation throws, and throws on a SwapResult it rejects
ExecuteTradeStep ==
  /\ workflow.pc = "executeTrade"
  /\ LET p == WorkflowTradeParams(workflow.tradeDirection, workflow)
     IN IF ToolInputThrows(p)
        THEN /\ workflow' = [workflow EXCEPT !.pc = "failed", !.trade = "toolInput"]
             /\ UNCHANGED <<policyVars, swap>>
        ELSE /\ ExecuteSwap(p)
             /\ IF SwapToolRejects(swap'.result)
                THEN workflow' = [workflow EXCEPT !.pc = "failed", !.trade = "swapRejected"]
                ELSE workflow' = [workflow EXCEPT !.pc = "reportTrade", !.trade = "done",
                                                  !.txHash =
                                                    IF "txHash" \in DOMAIN swap'.result
                                                    THEN swap'.result.txHash ELSE ""]
  /\ UNCHANGED <<routerAddress, quote, agent, inflight>>

\* The reportTrade step: a failing report is caught and the run goes on
ReportTradeStep ==
  /\ workflow.pc = "reportTrade"
  /\ \E outcome \in RecallOutcomes :
       workflow' = [workflow EXCEPT !.pc = "waitForSignal",
                                    !.report = IF outcome = "ok" THEN "success" ELSE "failed"]
  /\ UNCHANGED <<policyVars, routerAddress, swap, quote, agent, inflight>>

\* Neither the standalone agent nor the workflow is started, and no call of
\* the policy is suspended
InitCycle ==
  /\ agent = NoAgent
  /\ workflow = NoWorkflow
  /\ inflight = << >>

Init ==
  /\ InitPolicy
  /\ routerAddress = TRUE
  /\ swap = NoSwap
  /\ quote = NoQuote
  /\ InitCycle

Next == validateTradingGuardrails \/ AdvanceDay

Spec == Init /\ [][Next]_vars

\* The swap executor on top of the policy
InitSwap ==
  /\ InitPolicy
  /\ routerAddress \in BOOLEAN
  /\ swap = NoSwap
  /\ quote = NoQuote
  /\ InitCycle

NextSwap == executeSwap \/ AdvanceDay

SpecSwap == InitSwap /\ [][NextSwap]_vars

\* The minimum-output arithmetic on its own, for every amount of QuoteAmounts
\* and every slippage the policy accepts
InitQuote ==
  /\ InitPolicy
  /\ routerAddress = TRUE
  /\ InitCycle
  /\ swap = NoSwap
  /\ quote \in { [NoQuote EXCEPT !.amountIn = a, !.slippageBps = s] :
                   a \in QuoteAmounts, s \in 1..maxSlippageBps }

NextQuote == QuoteMinimumOut

SpecQuote == InitQuote /\ [][NextQuote]_vars

\* The policy called concurrently for one wallet
NextConcurrent == BeginValidation \/ ResumeAfterWhitelist \/ ResumeAfterPrice

SpecConcurrent == Init /\ [][NextConcurrent]_vars

\* One of the two trading programs, the standalone agent or the workflow
NextCycle ==
  \/ AgentStart \/ AgentTimer \/ AgentSignal \/ AgentValidate \/ AgentSwap
  \/ WorkflowStart \/ waitForSignal \/ FetchMarketDataStep \/ GetTradingSignalStep
  \/ DecideActionStep \/ ExecuteTradeStep \/ ReportTradeStep

SpecCycle == Init /\ [][NextCycle]_vars

\* ---------------------------------------------------------------- claims
Range(seq) == { seq[i] : i \in DOMAIN seq }

ReasonIs(r) == "reason" \in DOMAIN last.decision /\ last.decision.reason = r

SlippageReasons == {"Slippage exceeds maximum allowed", "Slippage too low (unrealistic)"}

SlippageInBounds == last.params.slippageBps >= 1 /\ last.params.slippageBps <= maxSlippageBps

SelfSwap == last.params.tokenIn = last.params.tokenOut

AmountNotPositive == BigIntParses(last.params.amountIn) /\ BigIntOf(last.params.amountIn) <= 0

AmountPositive == BigIntParses(last.params.amountIn) /\ BigIntOf(last.params.amountIn) > 0

\* A step that is one call of validateTradingGuardrails
IsCall == calls' = calls + 1

\* C1: the checks run in the order slippage, self-swap, amount, whitelist,
\* volume; the decision carries the reason of the earliest violated check and
\* no check after that one is evaluated.
C1_FixedOrder ==
  last.called =>
    /\ ~SlippageInBounds =>
         /\ "reason" \in DOMAIN last.decision /\ last.decision.reason \in SlippageReasons
         /\ last.evaluated = <<"slippage">>
    /\ (SlippageInBounds /\ SelfSwap) =>
         /\ ReasonIs("Cannot swap token to itself")
         /\ Range(last.evaluated) \cap {"amount", "whitelist", "price", "volume"} = {}
    /\ (SlippageInBounds /\ ~SelfSwap /\ AmountNotPositive) =>
         /\ ReasonIs("Invalid trade amount")
         /\ Range(last.evaluated) \cap {"whitelist", "price", "volume"} = {}
    /\ ReasonIs("One or both tokens not whitelisted") =>
         Range(last.evaluated) \cap {"price", "volume"} = {}

\* C2: an intent with amountIn = 0 and slippage within bounds is rejected
\* without a single whitelist query or price query.
C2_ZeroAmountNoNetwork ==
  (last.called /\ last.params.amountIn = "0" /\ SlippageInBounds) =>
    /\ ~last.decision.isValid
    /\ last.whitelist.queries = 0
    /\ last.price.queries = 0

\* C3: a call that returns isValid = false leaves dailyVolumeTracker as it was.
C3_InvalidLeavesLedger ==
  [][(IsCall /\ ~last'.decision.isValid) => dailyVolumeTracker' = dailyVolumeTracker]_vars

\* C4: slippage above the maximum is rejected as too high, below 1 as too
\* low, in both cases without whitelist or price query and without touching
\* the ledger; slippage in [1, maxSlippageBps], endpoints included, passes the
\* slippage check.
C4_State ==
  /\ last.params.slippageBps > maxSlippageBps =>
       /\ ~last.decision.isValid
       /\ ReasonIs("Slippage exceeds maximum allowed")
       /\ last.whitelist.queries = 0 /\ last.price.queries = 0
  /\ last.params.slippageBps < 1 =>
       /\ ~last.decision.isValid
       /\ ReasonIs("Slippage too low (unrealistic)")
       /\ last.whitelist.queries = 0 /\ last.price.queries = 0
  /\ SlippageInBounds =>
       /\ ~("reason" \in DOMAIN last.decision /\ last.decision.reason \in SlippageReasons)
       /\ Len(last.evaluated) >= 2

C4_SlippageBounds ==
  [][IsCall => /\ C4_State'
               /\ (~SlippageInBounds' => dailyVolumeTracker' = dailyVolumeTracker)]_vars

C4_Witness ==
  /\ last.called
  /\ last.params.slippageBps = maxSlippageBps + 1
  /\ ReasonIs("Slippage exceeds maximum allowed")
  /\ dailyVolumeTracker # << >>

\* C5: an intent whose only fault is tokenIn = tokenOut is rejected with the
\* self-swap reason, whatever the whitelist, the price and the daily volume.
C5_SelfSwapReason ==
  (last.called /\ SlippageInBounds /\ AmountPositive /\ SelfSwap) =>
    /\ ~last.decision.isValid
    /\ ReasonIs("Cannot swap token to itself")

C7_DailyLimit ==
  /\ \A k \in DOMAIN dailyVolumeTracker : dailyVolumeTracker[k].volume <= maxDailyVolumeUsd
  /\ \A k \in DOMAIN validVolume : validVolume[k] <= maxDailyVolumeUsd

\* C8: no call lowers the recorded volume of a (wallet, day) record, and the
\* ledger changes only through a call that returns isValid = true.
C8_Monotone ==
  [][IsCall =>
       /\ \A k \in (DOMAIN dailyVolumeTracker) \cup (DOMAIN dailyVolumeTracker') :
            VolumeOf(dailyVolumeTracker', k) >= VolumeOf(dailyVolumeTracker, k)
       /\ (dailyVolumeTracker' # dailyVolumeTracker => last'.decision.isValid)]_vars

\* C9: without TOKEN_WHITELIST_CONTRACT no call returns the 'not whitelisted'
\* reason or queries the contract, and a call that passed the slippage check
\* goes on to the checks after the whitelist.
C9_UnconfiguredPasses ==
  (~whitelistContract /\ last.called) =>
    /\ ~ReasonIs("One or both tokens not whitelisted")
    /\ last.whitelist.queries = 0
    /\ SlippageInBounds => "price" \in Range(last.evaluated)

C9_Witness ==
  /\ ~whitelistContract
  /\ last.called
  /\ last.decision.isValid
  /\ last.params.tokenIn = "0xAA"

\* C10: with the whitelist contract configured, the whitelist check passes
\* only if isWhitelisted answered true for both tokens; when one answers
\* false or the query throws, the call returns isValid = false with the
\* 'not whitelisted' reason and the ledger is unchanged.
C10_State ==
  (whitelistContract /\ last.called /\ SlippageInBounds) =>
    /\ last.whitelist.queries = 2
    /\ Len(last.evaluated) > 2 => (last.whitelist.tokenIn = "true" /\ last.whitelist.tokenOut = "true")
    /\ ~(last.whitelist.tokenIn = "true" /\ last.whitelist.tokenOut = "true") =>
         /\ ~last.decision.isValid
         /\ ReasonIs("One or both tokens not whitelisted")

WhitelistRejected == last.called /\ ReasonIs("One or both tokens not whitelisted")

C10_ConfiguredWhitelist ==
  [][IsCall => /\ C10_State'
               /\ (WhitelistRejected' => dailyVolumeTracker' = dailyVolumeTracker)]_vars

C10_Witness ==
  /\ whitelistContract
  /\ WhitelistRejected
  /\ last.whitelist.tokenIn = "true"
  /\ last.whitelist.tokenOut = "throw"
  /\ dailyVolumeTracker # << >>

\* ------------------------------------------------- claims on executeSwap
\* The steps of a swap that ran to its end
FullTrace ==
  <<"wallet", "policy", "balance", "approve", "approveConfirmed", "swap", "swapConfirmed">>

IsPrefix(s, t) == Len(s) <= Len(t) /\ SubSeq(t, 1, Len(s)) = s

SwapTrace == swap.did.trace

\* The last executeSwap call reached its policy validation, so last is that validation
PolicyInvoked == swap.called /\ "policy" \in Range(SwapTrace)

SwapFailed == swap.called /\ ~swap.threw /\ ~swap.result.success

SwapErrorIs(e) == SwapFailed /\ "error" \in DOMAIN swap.result /\ swap.result.error = e

WalletFails(w) == ~w.connects \/ ~w.pkpPublicKey \/ ~w.inits

PolicyReasons ==
  SlippageReasons \cup {"Cannot swap token to itself", "Invalid trade amount",
                        "One or both tokens not whitelisted", "Daily volume limit exceeded"}

\* C11: every decision with isValid = false carries a reason of the taxonomy
\* (slippage out of bounds, self-swap rejected, invalid amount, token not
\* whitelisted, daily volume exceeded); the call itself always returns.
C11_ReasonInTaxonomy ==
  (last.called /\ ~last.decision.isValid) =>
    "reason" \in DOMAIN last.decision /\ last.decision.reason \in PolicyReasons

\* C12: a decision has a reason if and only if isValid is false, and it always
\* has a details payload, on every return path of validateTradingGuardrails.
C12_ReasonIffInvalid ==
  last.called =>
    /\ ("reason" \in DOMAIN last.decision) <=> ~last.decision.isValid
    /\ "details" \in DOMAIN last.decision

C12_Witness ==
  /\ last.called
  /\ last.params.amountIn = "1.5"
  /\ ReasonIs("Validation error occurred")
  /\ "details" \in DOMAIN last.decision

\* C13: when the policy validation of an executeSwap call succeeds and the call
\* then fails (balance, router configuration, approval or swap), the wallet's
\* daily volume is the volume before the call plus the trade's USD value.
C13_CommitNotRolledBack ==
  [][ (calls' = calls + 1 /\ last'.decision.isValid /\ ~swap'.result.success) =>
        /\ last'.decision.details.tradeValueUsd > 0
        /\ VolumeOf(dailyVolumeTracker', <<PkpAddress, today>>)
             = VolumeOf(dailyVolumeTracker, <<PkpAddress, today>>)
                 + last'.decision.details.tradeValueUsd ]_vars

C13_Witness ==
  /\ PolicyInvoked
  /\ last.decision.isValid
  /\ SwapErrorIs(<<"approve transaction reverted">>)
  /\ VolumeOf(dailyVolumeTracker, <<PkpAddress, today>>) >= last.decision.details.tradeValueUsd
  /\ last.decision.details.tradeValueUsd = 10000

\* C14: executeSwap never throws to its caller; a call that failed resolves to
\* a result with success = false and a non-empty error, a result is a success
\* only when every step was done, and only a success has a txHash.
C14_NeverThrows ==
  swap.called =>
    /\ ~swap.threw
    /\ ~swap.result.success =>
         "error" \in DOMAIN swap.result /\ swap.result.error # << >>
    /\ swap.result.success => SwapTrace = FullTrace
    /\ "txHash" \in DOMAIN swap.result => swap.result.success

C14_Witness ==
  /\ SwapErrorIs(<<"Unknown error">>)
  /\ SwapTrace = <<"wallet", "policy", "balance">>

\* C15: when executeSwap fails because UNISWAP_V3_ROUTER is unset, no wallet
\* was acquired, the policy (whitelist query, ledger commit) was not run and
\* no balance was read in that call.
C15_RouterBeforeChain ==
  SwapErrorIs(<<"UNISWAP_V3_ROUTER not configured">>) =>
    Range(SwapTrace) \cap {"wallet", "policy", "balance", "approve", "swap"} = {}

\* C16: the steps of one call are a prefix of wallet, policy, balance,
\* approval submitted, approval confirmed, swap submitted, swap confirmed; an
\* approval is submitted only after a valid policy decision and with a balance
\* >= amountIn, for exactly amountIn, and the swap carries the same amountIn.
C16_StepOrder ==
  swap.called =>
    /\ IsPrefix(SwapTrace, FullTrace)
    /\ "approve" \in Range(SwapTrace) =>
         /\ last.decision.isValid
         /\ swap.did.balance >= AmountInBigInt(swap.params.amountIn)
         /\ swap.did.approved = AmountInBigInt(swap.params.amountIn)
    /\ "swap" \in Range(SwapTrace) =>
         /\ "approveConfirmed" \in Range(SwapTrace)
         /\ swap.did.swapParams.amountIn = AmountInBigInt(swap.params.amountIn)
         /\ swap.did.swapParams.amountIn = swap.did.approved

C16_Witness ==
  /\ swap.called
  /\ SwapTrace = FullTrace
  /\ swap.did.balance = AmountInBigInt(swap.params.amountIn)
  /\ swap.did.approved = 50000000
  /\ swap.did.swapParams.amountIn = 50000000

\* C17: when the policy validation inside executeSwap is invalid, the call
\* returns success = false with the policy's reason in its error, and does no
\* balance read, approval or swap.
C17_PolicyInvalidStops ==
  (PolicyInvoked /\ ~last.decision.isValid) =>
    /\ SwapErrorIs(<<"Policy validation failed: ", last.decision.reason>>)
    /\ SwapTrace = <<"wallet", "policy">>
    /\ swap.did.approved = 0
    /\ swap.did.swapParams = NoSwapParams

C17_Witness ==
  /\ PolicyInvoked
  /\ ~last.decision.isValid
  /\ SwapErrorIs(<<"Policy validation failed: ", "Cannot swap token to itself">>)

\* C18: an executeSwap call whose wallet acquisition fails ends with a failure
\* result carrying the initialization error, after one acquisition attempt and
\* nothing else; the policy is not invoked and the ledger is unchanged.
C18_WalletFailureStops ==
  [][ (swap'.called /\ WalletFails(swap'.wallet) /\ (swap' # swap \/ calls' # calls)) =>
        /\ ~swap'.threw
        /\ ~swap'.result.success
        /\ swap'.result.error[1] = "Lit wallet initialization failed: "
        /\ swap'.did.trace = <<"wallet">>
        /\ UNCHANGED <<dailyVolumeTracker, calls, last, validVolume>> ]_vars

C18_Witness ==
  /\ SwapErrorIs(<<"Lit wallet initialization failed: ", "LIT_PKP_PUBLIC_KEY not configured">>)
  /\ ~swap.wallet.pkpPublicKey
  /\ SwapTrace = <<"wallet">>
  /\ calls = 1
  /\ dailyVolumeTracker # << >>

C20_MissingLogSucceeds ==
  (swap.called /\ SwapTrace = FullTrace /\ ~swap.did.log.found) =>
    /\ ~swap.threw
    /\ swap.result.success
    /\ swap.result.txHash = "0xswap"
    /\ swap.result.amountOut = NumberString(0)
    /\ swap.result.effectiveSlippage = 0

C20_Witness ==
  /\ swap.called
  /\ SwapTrace = FullTrace
  /\ swap.did.log = NoLog
  /\ swap.result.success
  /\ swap.result.amountOut = NumberString(0)

\* C21: once the swap transaction is confirmed, executeSwap reports success
\* whatever the receipt holds (any Transfer log data) and however small the
\* estimated output is.
C21_ConfirmedNeverFails ==
  (swap.called /\ "swapConfirmed" \in Range(SwapTrace)) =>
    ~swap.threw /\ swap.result.success

\* The step a failure result comes from, by its error
FailedStep(e) ==
  CASE e[1] = "Lit wallet initialization failed: " -> "wallet"
    [] e[1] = "Policy validation failed: " -> "policy"
    [] e \in {<<"balance read failed">>, <<"Unknown error">>, <<"Insufficient balance">>,
              <<"UNISWAP_V3_ROUTER not configured">>} -> "balance"
    [] e \in {<<"approve transaction rejected">>, <<"approve transaction reverted">>} -> "approve"
    [] e \in {<<"swap transaction rejected">>, <<"swap transaction reverted">>} -> "swap"
    [] OTHER -> "swapConfirmed"

\* C22: in one executeSwap call no step is attempted twice, and the call ends
\* at the step that failed.
C22_NoRetry ==
  swap.called =>
    /\ Cardinality(Range(SwapTrace)) = Len(SwapTrace)
    /\ SwapFailed => SwapTrace[Len(SwapTrace)] = FailedStep(swap.result.error)

C22_Witness ==
  /\ SwapErrorIs(<<"approve transaction rejected">>)
  /\ SwapTrace = <<"wallet", "policy", "balance", "approve">>

\* The decision of the volume check inside the last decision, if it was reached
VolumeDetails(decision) ==
  IF decision.isValid THEN decision.details.volumeValidated ELSE decision.details

VolumeDecided(decision) ==
  decision.isValid \/ decision.reason = "Daily volume limit exceeded"

\* C27: the first validation of a wallet on a day starts from a running total
\* of 0 whatever the wallet committed on earlier days, and a call leaves the
\* records of other days in place and unchanged.
C27_FreshDay ==
  [][ IsCall =>
        LET key == <<last'.params.walletAddress, today>>
        IN /\ (key \notin DOMAIN dailyVolumeTracker /\ VolumeDecided(last'.decision)) =>
                VolumeDetails(last'.decision).currentVolume = 0
           /\ (key \notin DOMAIN dailyVolumeTracker /\ last'.decision.isValid) =>
                VolumeOf(dailyVolumeTracker', key) = last'.decision.details.tradeValueUsd
           /\ \A k \in DOMAIN dailyVolumeTracker :
                k[2] # today =>
                  k \in DOMAIN dailyVolumeTracker' /\ dailyVolumeTracker'[k] = dailyVolumeTracker[k]
    ]_vars

C27_Witness ==
  /\ today = 2
  /\ last.called
  /\ last.decision.isValid
  /\ last.params.walletAddress = "0xW1"
  /\ last.decision.details.volumeValidated.currentVolume = 0
  /\ VolumeOf(dailyVolumeTracker, <<"0xW1", 1>>) = 10000
  /\ VolumeOf(dailyVolumeTracker, <<"0xW1", 2>>) = 5000

\* C29: a call for a wallet changes at most the record of that wallet and
\* today; the records of every other wallet stay as they are.
C29_PerWallet ==
  [][ IsCall =>
        \A k \in (DOMAIN dailyVolumeTracker) \cup (DOMAIN dailyVolumeTracker') :
          k # <<last'.params.walletAddress, today>> =>
            /\ k \in DOMAIN dailyVolumeTracker
            /\ k \in DOMAIN dailyVolumeTracker'
            /\ dailyVolumeTracker'[k] = dailyVolumeTracker[k] ]_vars

C29_Witness ==
  /\ last.called
  /\ last.params.walletAddress = "0xW2"
  /\ last.decision.isValid
  /\ VolumeOf(dailyVolumeTracker, <<"0xW1", today>>) = 10000
  /\ VolumeOf(dailyVolumeTracker, <<"0xW2", today>>) = 9000

\* The sum of the trade values of the calls of f that returned valid
RECURSIVE SumValid(_, _)
SumValid(f, n) ==
  IF n = 0 THEN 0
  ELSE SumValid(f, n - 1)
         + (IF f[n].pc = "done" /\ f[n].decision.isValid
            THEN f[n].decision.details.tradeValueUsd ELSE 0)

AllReturned ==
  /\ Cardinality(DOMAIN inflight) = MaxInflight
  /\ \A i \in DOMAIN inflight : inflight[i].pc = "done"

\* C24: after concurrent calls for one wallet and day, interleaved at their
\* awaits, the wallet's total is the initial total plus the values of the calls
\* that returned valid, and it does not exceed maxDailyVolumeUsd.
C24_NoDoubleSpend ==
  AllReturned =>
    /\ VolumeOf(dailyVolumeTracker, <<"0xW1", today>>)
         = SumValid(inflight, Cardinality(DOMAIN inflight))
    /\ VolumeOf(dailyVolumeTracker, <<"0xW1", today>>) <= maxDailyVolumeUsd

\* C23: in a cycle of the standalone agent that executes one swap,
\* validateTradingGuardrails is called once and the wallet's daily volume
\* grows by the trade's USD value, once.
C23_CommittedOnce ==
  (agent.pc = "wait" /\ agent.swapped /\ swap.result.success) =>
    /\ calls - agent.startCalls = 1
    /\ VolumeOf(dailyVolumeTracker, <<PkpAddress, today>>)
         = agent.startVolume + last.decision.details.tradeValueUsd

\* C25: runTradingLoop runs one cycle at a time.  A cycle starts only at
\* start() or when the timer set after the previous cycle fires, and when a
\* cycle ends the timer is set to 5 minutes, or to 30 seconds when the cycle
\* threw, whatever the number of consecutive failures; the loop never stops
\* by itself.
C25_OneCycleAtATime ==
  [][ /\ (agent'.cycles # agent.cycles) =>
           /\ agent.pc \in {"off", "wait"}
           /\ agent'.pc = "cycle"
           /\ agent'.cycles = agent.cycles + 1
      /\ (agent.pc = "wait" /\ agent'.pc # "wait") => agent'.cycles = agent.cycles + 1
      /\ (agent.pc \notin {"off", "wait"} /\ agent'.pc = "wait") =>
           agent'.delay = IF agent'.threw THEN 30000 ELSE 300000
      /\ (agent.pc # "off") => agent'.pc # "off" ]_vars

\* Two cycles in a row have thrown and the timer is again at 30 seconds
C25_Witness ==
  agent.pc = "wait" /\ agent.threw /\ agent.failures = 2 /\ agent.delay = 30000

\* C26: a trade is executed only for a BUY or SELL signal whose confidence
\* exceeds 75%: the agent reaches executeTrade, and the workflow decides
\* TRADE, only then, and the trade direction of a TRADE is the signal.
C26_AboveThreshold ==
  /\ (agent.pc \in {"validate", "swap"} \/ agent.validated) =>
       agent.signal \in {"BUY", "SELL"} /\ agent.confidence > 75
  /\ (workflow.action = "TRADE" \/ workflow.trade # "none") =>
       /\ workflow.signal \in {"BUY", "SELL"}
       /\ workflow.confidence > 75
       /\ workflow.tradeDirection = workflow.signal

\* The cycle of the workflow in which the market data or the signal failed
FetchFailed == workflow.fetch \in {"requestFails", "noPrices", "fewPoints"}

GaiaFailed ==
  \/ workflow.gaia.kind \in {"unconfigured", "requestFails", "noContent"}
  \/ workflow.gaia.kind = "content" /\ workflow.gaia.signal \notin {"BUY", "SELL", "HOLD"}

\* C28: in a cycle of the workflow whose market-data fetch fails or returns
\* fewer than 50 points, or whose Gaia request fails, is not configured or
\* answers a signal other than BUY, SELL and HOLD, the market data is empty
\* (fetch), the signal is HOLD with confidence 0, the action is WAIT and
\* executeTrade is not reached.
C28_FailureWaits ==
  (FetchFailed \/ GaiaFailed) =>
    /\ FetchFailed => workflow.marketData = "empty"
    /\ workflow.pc # "getTradingSignal" =>
         workflow.signal = "HOLD" /\ workflow.confidence = 0
    /\ workflow.pc \in {"getTradingSignal", "decideAction", "waitForSignal"}
    /\ workflow.pc = "waitForSignal" => workflow.action = "WAIT"
    /\ workflow.action \in {"none", "WAIT"}
    /\ workflow.trade = "none"
    /\ workflow.report = "none"

\* A cycle with market data and an answer "MAYBE" at full confidence has ended
C28_Witness ==
  /\ workflow.pc = "waitForSignal"
  /\ workflow.fetch = "ok"
  /\ workflow.gaia = [kind |-> "content", signal |-> "MAYBE", confidence |-> 150]
  /\ workflow.action = "WAIT"

====
